---- MODULE Spec2Model ----
(***************************************************************************)
(* A model of salt/modules/win_update.py: the PyWinUpdater class and the   *)
(* three salt functions list_updates, download_updates and install_updates *)
(* with their retry wrappers _search, _download and _install.              *)
(*                                                                         *)
(* The Windows Update Agent is the environment: each call into it either   *)
(* raises or answers, and the choice is nondeterministic.                  *)
(***************************************************************************)
EXTENDS Integers, Sequences, FiniteSets, TLC

\* ------------------------------------------------------------------ bounds

\* the retries argument is drawn from 1..MaxRetries
MaxRetries == 2
\* failed attempts explored in one run of an operation (python integers are
\* unbounded: the counter can go on falling, the model stops following it here)
MaxFails == 3

\* OperationResultCode values of the Windows Update Agent
orcSucceeded == 2
orcFailed == 4

VARIABLES
    \* the call
    op, verbose, retries,
    \* PyWinUpdater fields
    skipUI, skipDownloaded, skipInstalled, skipReboot, skipPresent, skipHidden,
    skipSoftwareUpdates, skipDriverUpdates,
    categories, foundCategories,
    search_results, download_collection, install_collection,
    download_results, install_results,
    \* the updates the update service knows for this host (IsDownloaded is live)
    host,
    \* position of the synchronous call and the locals of the running wrapper
    pc, clean, comment, result,
    \* history: the retries argument, failed attempts per phase, service calls
    \* made, phases with a passed attempt, phases that ran out of retries,
    \* phases in the order they were started
    retries0, fails, invoked, attemptOK, exhausted, started

flags == <<skipUI, skipDownloaded, skipInstalled, skipReboot, skipPresent,
           skipHidden, skipSoftwareUpdates, skipDriverUpdates>>
call == <<op, verbose, categories, retries0>>
vars == <<op, verbose, retries, skipUI, skipDownloaded, skipInstalled,
          skipReboot, skipPresent, skipHidden, skipSoftwareUpdates,
          skipDriverUpdates, categories, foundCategories, search_results,
          download_collection, install_collection, download_results,
          install_results, host, pc, clean, comment, result, retries0, fails,
          invoked, attemptOK, exhausted, started>>

\* ------------------------------------------------------------------ data

\* an IUpdate of the update service
Update(title, type, ui, downloaded, installed, hidden, reboot, present, cats) ==
    [Title |-> title, Type |-> type, CanRequestUserInput |-> ui,
     IsDownloaded |-> downloaded, IsInstalled |-> installed,
     IsHidden |-> hidden, RebootRequired |-> reboot, IsPresent |-> present,
     Categories |-> cats]

\* python None for the optional fields
None == [none |-> TRUE, Updates |-> <<>>]
Some(s) == [none |-> FALSE, Updates |-> s]
NoCategories == [none |-> TRUE, names |-> {}]
CategoryList(s) == [none |-> FALSE, names |-> s]

Range(s) == {s[i] : i \in DOMAIN s}

\* ------------------------------------------------------------------ skips

\* PyWinUpdater.__init__ defaults, with the skipDownloaded the caller passes
DefaultFlags(dl) ==
    [UI |-> TRUE, downloaded |-> dl, installed |-> TRUE, reboot |-> FALSE,
     present |-> FALSE, hidden |-> TRUE, software |-> FALSE, driver |-> FALSE]

SkipNames == {"UI", "downloaded", "installed", "reboot", "present", "hidden",
              "software", "driver"}

\* SetSkip: an unknown name changes nothing
SetSkip(f, skip, state) ==
    IF skip \in SkipNames THEN [f EXCEPT ![skip] = state] ELSE f

\* SetSkips: skips is a list of one-entry dicts, applied in order
RECURSIVE SetSkips(_, _)
SetSkips(f, skips) ==
    IF skips = <<>> THEN f
    ELSE SetSkips(SetSkip(f, Head(skips)[1], Head(skips)[2]), Tail(skips))

\* ------------------------------------------------------------------ filter

\* AutoSearch: the criteria string, as the list of its words; <<>> stands for
\* the early `return False` taken when both types are skipped
SearchParams ==
    << IF skipInstalled THEN "IsInstalled=0" ELSE "IsInstalled=1",
       IF skipHidden THEN "IsHidden=0" ELSE "IsHidden=1",
       IF skipReboot THEN "RebootRequired=0" ELSE "RebootRequired=1",
       IF skipPresent THEN "IsPresent=0" ELSE "IsPresent=1" >>

RECURSIVE JoinAnd(_)
JoinAnd(params) ==
    IF params = <<>> THEN <<>>
    ELSE <<Head(params), "and">> \o JoinAnd(Tail(params))

NoTypeToSearch == skipSoftwareUpdates /\ skipDriverUpdates

SearchString ==
    JoinAnd(SearchParams) \o
    ( IF ~skipSoftwareUpdates /\ ~skipDriverUpdates
        THEN <<"Type='Software'", "or", "Type='Driver'">>
      ELSE IF ~skipSoftwareUpdates THEN <<"Type='Software'">>
      ELSE IF ~skipDriverUpdates THEN <<"Type='Driver'">>
      ELSE <<>> )

\* the update service's reading of one criterion
TermHolds(term, u) ==
    CASE term = "IsInstalled=0" -> ~u.IsInstalled
      [] term = "IsInstalled=1" -> u.IsInstalled
      [] term = "IsHidden=0" -> ~u.IsHidden
      [] term = "IsHidden=1" -> u.IsHidden
      [] term = "RebootRequired=0" -> ~u.RebootRequired
      [] term = "RebootRequired=1" -> u.RebootRequired
      [] term = "IsPresent=0" -> ~u.IsPresent
      [] term = "IsPresent=1" -> u.IsPresent
      [] term = "Type='Software'" -> u.Type = "Software"
      [] term = "Type='Driver'" -> u.Type = "Driver"
      [] OTHER -> FALSE

\* the criteria split at "or" into lists of terms joined by "and"
RECURSIVE Disjuncts(_)
Disjuncts(words) ==
    IF words = <<>> THEN << <<>> >>
    ELSE LET rest == Disjuncts(Tail(words)) IN
         IF Head(words) = "or" THEN << <<>> >> \o rest
         ELSE IF Head(words) = "and" THEN rest
         ELSE << <<Head(words)>> \o Head(rest) >> \o Tail(rest)

\* win_searcher.Search(criteria): "and" binds tighter than "or"
Matches(words, u) ==
    \E d \in Range(Disjuncts(words)) : \A t \in Range(d) : TermHolds(t, u)

\* the updates the service answers with, as positions in host, in host order
ServiceSearch(words) ==
    LET hit(i) == Matches(words, host[i])
    IN  SelectSeq([i \in 1..Len(host) |-> i], hit)

\* ------------------------------------------------------------------ collections

\* _gather_update_categories: the category names of a collection, each once,
\* in the order they are met
RECURSIVE AppendNew(_, _)
AppendNew(found, names) ==
    IF names = <<>> THEN found
    ELSE AppendNew(IF Head(names) \in Range(found) THEN found
                   ELSE Append(found, Head(names)),
                   Tail(names))

RECURSIVE gather_update_categories(_, _)
gather_update_categories(coll, h) ==
    IF coll = <<>> THEN <<>>
    ELSE AppendNew(gather_update_categories(SubSeq(coll, 1, Len(coll) - 1), h),
                   h[coll[Len(coll)]].Categories)

\* Search, the parsing loop: is the update at position i of host added to the
\* download collection?
CategoryWanted(u) ==
    \E j \in DOMAIN u.Categories :
        categories.none \/ u.Categories[j] \in categories.names

\* Search without the test of CanRequestUserInput
SearchAddsAnyBehavior(i) ==
    /\ ~(skipDownloaded /\ host[i].IsDownloaded)
    /\ CategoryWanted(host[i])

SearchAdds(i) ==
    /\ ~host[i].CanRequestUserInput
    /\ ~(skipDownloaded /\ host[i].IsDownloaded)
    /\ CategoryWanted(host[i])

\* what the parsing loop adds when it gets through the first k updates found
ParseAdds(found, k) == SelectSeq(SubSeq(found, 1, k), SearchAdds)

\* Install, the preparing loop: every found update that is downloaded
InstallAdds(i) == host[i].IsDownloaded

PrepareAdds(found, k) == SelectSeq(SubSeq(found, 1, k), InstallAdds)

\* the result object of the service's Download or Install: one code for each
\* position of the collection, ok being the updates the service managed
NoResults == [none |-> TRUE, codes |-> <<>>]
ServiceResults(coll, ok) ==
    [none |-> FALSE,
     codes |-> [j \in DOMAIN coll |->
                  IF coll[j] \in ok THEN orcSucceeded ELSE orcFailed]]

\* ------------------------------------------------------------------ reports

\* what an operation returns; kind "none" while it is running
Report(kind) ==
    [kind |-> kind, comment |-> <<>>, passed |-> "", count |-> 0,
     titles |-> <<>>, byCategory |-> <<>>, updates |-> <<>>]

\* `return (comment, str(passed))`
FailureReport(cmt, passed) ==
    [Report("failure") EXCEPT !.comment = cmt,
                              !.passed = IF passed THEN "True" ELSE "False"]

\* GetSearchResults: the titles of the download collection, those that can
\* request user input left out
GetSearchResults ==
    LET quiet(i) == ~host[i].CanRequestUserInput
        kept == SelectSeq(download_collection, quiet)
    IN  [j \in DOMAIN kept |-> host[kept[j]].Title]

\* __str__: the size of the download collection and, for each found category,
\* how many of its updates carry it
CountOf(category) ==
    Cardinality(UNION {
        { <<j, m>> : m \in { n \in DOMAIN host[download_collection[j]].Categories :
                    host[download_collection[j]].Categories[n] = category } } :
        j \in DOMAIN download_collection })

\* every line with the code and the title taken from the first position
ResultLinesOfFirst(coll, results) ==
    [j \in DOMAIN coll |->
        [code |-> results.codes[1], title |-> host[coll[1]].Title]]

\* GetDownloadResults / GetInstallationResults: "resultCode: title" for each
\* position of the collection
ResultLines(coll, results) ==
    [j \in DOMAIN coll |->
        [code |-> results.codes[j], title |-> host[coll[j]].Title]]

\* GetInstallationResultsPretty walks the dict of GetInstallationResults with
\* `for i in updates`: the keys 'update 0', 'update 1', ... come in the order
\* of the dict, which in python 2 is not the order they were put in. Every
\* order of the lines is possible; equal lines are not told apart.
RECURSIVE Arrangements(_)
Arrangements(left) ==
    IF \A e \in DOMAIN left : left[e] = 0 THEN { <<>> }
    ELSE UNION { { <<e>> \o rest :
                     rest \in Arrangements([left EXCEPT ![e] = @ - 1]) } :
                 e \in { x \in DOMAIN left : left[x] > 0 } }

DictOrders(lines) ==
    Arrangements([e \in Range(lines) |->
                    Cardinality({ j \in DOMAIN lines : lines[j] = e })])

\* what the operation returns after its last phase passed
SuccessReports ==
    IF op = "list" THEN
        IF verbose
        THEN { [Report("listing") EXCEPT !.titles = GetSearchResults,
                                         !.count = Len(GetSearchResults)] }
        ELSE { [Report("listing") EXCEPT
                !.count = Len(download_collection),
                !.byCategory = [j \in DOMAIN foundCategories |->
                                  [name |-> foundCategories[j],
                                   count |-> CountOf(foundCategories[j])]]] }
    ELSE IF op = "download" THEN
        { [Report("uptodate") EXCEPT
            !.updates = ResultLines(download_collection, download_results)] }
    ELSE
        { [Report("uptodate") EXCEPT !.updates = lines] :
            lines \in DictOrders(ResultLines(install_collection,
                                             install_results)) }

\* ------------------------------------------------------------------ wrappers

\* every operation going through all three wrappers
PhasesOfInstall == <<"search", "download", "install">>

\* the phases of each operation, in the order its code calls the wrappers
Phases ==
    IF op = "list" THEN <<"search">>
    ELSE IF op = "download" THEN <<"search", "download">>
    ELSE <<"search", "download", "install">>

LastPhase == Phases[Len(Phases)]
NextPhase(phase) ==
    IF phase = "search" THEN "download" ELSE "install"

Line(k, n) == [k |-> k, n |-> n]

FailedAttempts == fails.search + fails.download + fails.install

\* the `passed` a wrapper returns from its out-of-retries branch
ExhaustedPassed(phase) == phase = "search"

\* `if retries:` after the decrement
TriesToGo(r) == r # 0

\* the caller's lines after a wrapper returned (comment, passed, retries)
Return(phase, cmt, cl, passed) ==
    IF ~passed THEN
        /\ pc' = "done"
        /\ comment' = cmt
        /\ clean' = cl
        /\ started' = started
        /\ result' = FailureReport(cmt, passed)
    ELSE IF phase = LastPhase THEN
        /\ pc' = "done"
        /\ comment' = cmt
        /\ clean' = cl
        /\ started' = started
        /\ result' \in SuccessReports'
    ELSE
        /\ pc' = NextPhase(phase)
        /\ comment' = <<>>
        /\ clean' = TRUE
        /\ started' = Append(started, NextPhase(phase))
        /\ result' = result

\* a loop body whose _install forgets `retries -= 1`
FailureInstallKeepsCounter(phase) ==
    /\ FailedAttempts < MaxFails
    /\ retries' = IF phase = "install" THEN retries ELSE retries - 1
    /\ fails' = [fails EXCEPT ![phase] = @ + 1]
    /\ attemptOK' = attemptOK
    /\ IF TriesToGo(retries')
       THEN /\ comment' = comment \o <<Line("failed", 0), Line("togo", retries')>>
            /\ clean' = FALSE
            /\ exhausted' = exhausted
            /\ UNCHANGED <<pc, started, result>>
       ELSE /\ exhausted' = exhausted \cup {phase}
            /\ Return(phase, comment \o <<Line("failed", 0), Line("out", 0)>>,
                      FALSE, ExhaustedPassed(phase))

\* the wrapper's loop body after the attempt returned an exception
Failure(phase) ==
    /\ FailedAttempts < MaxFails
    /\ retries' = retries - 1
    /\ fails' = [fails EXCEPT ![phase] = @ + 1]
    /\ attemptOK' = attemptOK
    /\ IF TriesToGo(retries')
       THEN /\ comment' = comment \o <<Line("failed", 0), Line("togo", retries')>>
            /\ clean' = FALSE
            /\ exhausted' = exhausted
            /\ UNCHANGED <<pc, started, result>>
       ELSE /\ exhausted' = exhausted \cup {phase}
            /\ Return(phase, comment \o <<Line("failed", 0), Line("out", 0)>>,
                      FALSE, ExhaustedPassed(phase))

\* a wrapper that adds its 'done without error' line whatever happened
SuccessAlwaysClean(phase) ==
    /\ attemptOK' = attemptOK \cup {phase}
    /\ UNCHANGED <<retries, fails, exhausted>>
    /\ Return(phase, Append(comment, Line("clean", 0)), clean, TRUE)

\* the wrapper's lines after the attempt returned True
Success(phase) ==
    /\ attemptOK' = attemptOK \cup {phase}
    /\ UNCHANGED <<retries, fails, exhausted>>
    /\ Return(phase,
              IF clean THEN Append(comment, Line("clean", 0)) ELSE comment,
              clean, TRUE)

\* ------------------------------------------------------------------ inputs

Ops == {"list", "download", "install"}

\* the skips argument: nothing, each feature set against its default, and
\* both types skipped
SkipInputs ==
    { <<>>,
      << <<"UI", FALSE>> >>, << <<"downloaded", TRUE>> >>,
      << <<"installed", FALSE>> >>, << <<"reboot", TRUE>> >>,
      << <<"present", TRUE>> >>, << <<"hidden", FALSE>> >>,
      << <<"software", TRUE>> >>, << <<"driver", TRUE>> >>,
      << <<"software", TRUE>>, <<"driver", TRUE>> >> }

\* the categories argument
CategoryInputs ==
    { NoCategories,
      CategoryList({"Security Updates"}),
      CategoryList({"Critical Updates", "Security Updates"}) }

\* updates of a host: one to download, one that asks the user and is already
\* downloaded, a downloaded driver, one that needs no reboot
KB1 == Update("KB1", "Software", FALSE, FALSE, FALSE, FALSE, TRUE, TRUE,
              <<"Security Updates", "Windows 7">>)
KB2 == Update("KB2", "Software", TRUE, TRUE, FALSE, FALSE, TRUE, TRUE,
              <<"Updates", "Windows 7">>)
KB3 == Update("KB3", "Driver", FALSE, TRUE, FALSE, FALSE, FALSE, FALSE,
              <<"Drivers">>)
KB4 == Update("KB4", "Software", FALSE, FALSE, FALSE, FALSE, FALSE, TRUE,
              <<"Critical Updates", "Security Updates">>)

\* one that asks the user and is still to download
KB5 == Update("KB5", "Software", TRUE, FALSE, FALSE, FALSE, TRUE, TRUE,
              <<"Security Updates">>)

Catalogs ==
    { <<>>, <<KB1>>, <<KB2>>, <<KB3>>, <<KB4>>, <<KB5>>, <<KB1, KB2>>,
      <<KB1, KB3>>, <<KB1, KB4>>, <<KB1, KB5>>, <<KB2, KB3>>, <<KB2, KB4>>,
      <<KB3, KB4>> }

\* every update there can be, for the claims about the filter
AllUpdates ==
    { Update("KB0", t, ui, dl, inst, hid, reb, pres, cats) :
        t \in {"Software", "Driver"}, ui \in BOOLEAN, dl \in BOOLEAN,
        inst \in BOOLEAN, hid \in BOOLEAN, reb \in BOOLEAN, pres \in BOOLEAN,
        cats \in { <<"Security Updates", "Windows 7">> } }

\* ------------------------------------------------------------------ start

\* the state when the operation o(verbose=v, skips=sk, retries=n, categories=c)
\* enters _search on a host whose updates are h
Start(o, v, sk, n, c, h) ==
    LET f == SetSkips(DefaultFlags(o = "download"), sk) IN
    /\ op = o
    /\ verbose = v
    /\ retries = n
    /\ retries0 = n
    /\ skipUI = f.UI
    /\ skipDownloaded = f.downloaded
    /\ skipInstalled = f.installed
    /\ skipReboot = f.reboot
    /\ skipPresent = f.present
    /\ skipHidden = f.hidden
    /\ skipSoftwareUpdates = f.software
    /\ skipDriverUpdates = f.driver
    /\ categories = IF o = "list" /\ (c.none \/ c.names = {})
                    THEN NoCategories ELSE c
    /\ foundCategories = <<>>
    /\ search_results = None
    /\ download_collection = <<>>
    /\ install_collection = <<>>
    /\ download_results = NoResults
    /\ install_results = NoResults
    /\ host = h
    /\ pc = "search"
    /\ clean = TRUE
    /\ comment = <<>>
    /\ result = Report("none")
    /\ fails = [search |-> 0, download |-> 0, install |-> 0]
    /\ invoked = {}
    /\ attemptOK = {}
    /\ exhausted = {}
    /\ started = <<"search">>

Init ==
    \E o \in Ops, v \in BOOLEAN, sk \in SkipInputs, n \in 1..MaxRetries,
       c \in CategoryInputs, h \in Catalogs :
        /\ v => o = "list"
        /\ Start(o, v, sk, n, c, h)

InitFilter ==
    \E o \in Ops, sk \in SkipInputs, u \in AllUpdates :
        Start(o, FALSE, sk, 1, NoCategories, <<u>>)

\* ------------------------------------------------------------------ search

\* AutoSearch returns False: there is no type to search, _search loops
SearchNoType ==
    /\ pc = "search"
    /\ NoTypeToSearch
    /\ UNCHANGED vars

\* win_searcher.Search raises
SearchRaises ==
    /\ pc = "search"
    /\ ~NoTypeToSearch
    /\ invoked' = invoked \cup {"Search"}
    /\ UNCHANGED <<call, flags, foundCategories, search_results,
                   download_collection, install_collection, download_results,
                   install_results, host>>
    /\ Failure("search")

\* the service answers and the parsing raises after k of the found updates
\* (k = all of them: while gathering the categories)
SearchParseRaises ==
    /\ pc = "search"
    /\ ~NoTypeToSearch
    /\ LET found == ServiceSearch(SearchString) IN
       \E k \in 0..Len(found) :
          /\ search_results' = Some(found)
          /\ download_collection' = download_collection \o ParseAdds(found, k)
    /\ invoked' = invoked \cup {"Search"}
    /\ UNCHANGED <<call, flags, foundCategories, install_collection,
                   download_results, install_results, host>>
    /\ Failure("search")

\* the service answers and the parsing completes
SearchPasses ==
    /\ pc = "search"
    /\ ~NoTypeToSearch
    /\ LET found == ServiceSearch(SearchString) IN
          /\ search_results' = Some(found)
          /\ download_collection' =
                download_collection \o ParseAdds(found, Len(found))
    /\ foundCategories' = gather_update_categories(download_collection', host)
    /\ invoked' = invoked \cup {"Search"}
    /\ UNCHANGED <<call, flags, install_collection, download_results,
                   install_results, host>>
    /\ Success("search")

\* ------------------------------------------------------------------ download

\* Download with an empty download collection: nothing to do
DownloadSkips ==
    /\ pc = "download"
    /\ Len(download_collection) = 0
    /\ UNCHANGED <<call, flags, foundCategories, search_results,
                   download_collection, install_collection, download_results,
                   install_results, host, invoked>>
    /\ Success("download")

\* win_downloader.Download raises
DownloadRaises ==
    /\ pc = "download"
    /\ Len(download_collection) # 0
    /\ invoked' = invoked \cup {"Download"}
    /\ UNCHANGED <<call, flags, foundCategories, search_results,
                   download_collection, install_collection, download_results,
                   install_results, host>>
    /\ Failure("download")

\* win_downloader.Download answers, having fetched the updates in ok
DownloadPasses ==
    /\ pc = "download"
    /\ Len(download_collection) # 0
    /\ \E ok \in SUBSET Range(download_collection) :
          /\ download_results' = ServiceResults(download_collection, ok)
          /\ host' = [i \in DOMAIN host |->
                        IF i \in ok THEN [host[i] EXCEPT !.IsDownloaded = TRUE]
                        ELSE host[i]]
    /\ invoked' = invoked \cup {"Download"}
    /\ UNCHANGED <<call, flags, foundCategories, search_results,
                   download_collection, install_collection, install_results>>
    /\ Success("download")

\* ------------------------------------------------------------------ install

\* Install: preparing the install collection raises; with no search results
\* at all it always does, otherwise after k of the found updates
InstallPrepareRaises ==
    /\ pc = "install"
    /\ IF search_results.none
       THEN install_collection' = install_collection
       ELSE \E k \in 0..Len(search_results.Updates) :
              /\ k < Len(search_results.Updates) \/ k = 0
              /\ install_collection' =
                    install_collection \o PrepareAdds(search_results.Updates, k)
    /\ UNCHANGED <<call, flags, foundCategories, search_results,
                   download_collection, download_results, install_results,
                   host, invoked>>
    /\ Failure("install")

Prepared ==
    install_collection \o
        PrepareAdds(search_results.Updates, Len(search_results.Updates))

\* Install with nothing downloaded among the found updates: no new updates
InstallEmpty ==
    /\ pc = "install"
    /\ ~search_results.none
    /\ Len(Prepared) = 0
    /\ install_collection' = Prepared
    /\ UNCHANGED <<call, flags, foundCategories, search_results,
                   download_collection, download_results, install_results,
                   host, invoked>>
    /\ Success("install")

\* win_installer.Install raises
InstallRaises ==
    /\ pc = "install"
    /\ ~search_results.none
    /\ Len(Prepared) # 0
    /\ install_collection' = Prepared
    /\ invoked' = invoked \cup {"Install"}
    /\ UNCHANGED <<call, flags, foundCategories, search_results,
                   download_collection, download_results, install_results,
                   host>>
    /\ Failure("install")

\* win_installer.Install answers, having installed the updates in ok
InstallPasses ==
    /\ pc = "install"
    /\ ~search_results.none
    /\ Len(Prepared) # 0
    /\ install_collection' = Prepared
    /\ \E ok \in SUBSET Range(Prepared) :
          /\ install_results' = ServiceResults(Prepared, ok)
          /\ host' = [i \in DOMAIN host |->
                        IF i \in ok THEN [host[i] EXCEPT !.IsInstalled = TRUE]
                        ELSE host[i]]
    /\ invoked' = invoked \cup {"Install"}
    /\ UNCHANGED <<call, flags, foundCategories, search_results,
                   download_collection, download_results>>
    /\ Success("install")

\* ------------------------------------------------------------------ system

Next ==
    \/ SearchNoType
    \/ SearchRaises
    \/ SearchParseRaises
    \/ SearchPasses
    \/ DownloadSkips
    \/ DownloadRaises
    \/ DownloadPasses
    \/ InstallPrepareRaises
    \/ InstallEmpty
    \/ InstallRaises
    \/ InstallPasses

Spec == Init /\ [][Next]_vars

\* the filter on every kind of update, one update on the host
FilterSpec == InitFilter /\ [][Next]_vars

\* the interpreter always takes the next step of the running call
FairSpec == Init /\ [][Next]_vars /\ WF_vars(Next)

\* ------------------------------------------------------------------ claims

\* C1: the retry budget is total: in download_updates and install_updates the
\* failed attempts of all phases together never exceed the retries given, and
\* the counter never falls below 0.
C1_RetryBudgetIsTotal ==
    op \in {"download", "install"} =>
        /\ FailedAttempts <= retries0
        /\ retries >= 0

\* C2: when the search phase runs out of retries the operation has returned
\* the failure report (comment, 'False') and no later phase was started.
C2_SearchExhaustionAborts ==
    "search" \in exhausted =>
        /\ pc = "done"
        /\ result.kind = "failure"
        /\ result.passed = "False"
        /\ started = <<"search">>

\* C3: install_updates always terminates, whatever the service does (the
\* case of no type to search is C4's).
C3_InstallTerminates ==
    (op = "install" /\ ~NoTypeToSearch) ~> (pc = "done")

\* C4: the search phase ends for every combination of the skip flags.
C4_SearchPhaseEnds == <>(pc # "search")

\* C5: no update that can request user input is in the install collection
\* handed to the installer.
C5_NoUserInputInstalled ==
    "Install" \in invoked =>
        \A j \in DOMAIN install_collection :
            ~host[install_collection[j]].CanRequestUserInput

\* C6: with a non-empty categories list every update install_updates puts in
\* the download collection or in the install collection has a listed category.
C6_OnlyListedCategories ==
    (op = "install" /\ ~categories.none /\ categories.names # {}) =>
        \A i \in Range(download_collection) \cup Range(install_collection) :
            Range(host[i].Categories) \cap categories.names # {}

\* C7: the service's Download is invoked only after a search attempt passed,
\* its Install only after a download attempt passed, and the phases are
\* started in the order search, download, install, each once.
C7_PhasesInOrder ==
    /\ "Download" \in invoked => "search" \in attemptOK
    /\ "Install" \in invoked => "download" \in attemptOK
    /\ \E n \in 1..3 : started = SubSeq(<<"search", "download", "install">>, 1, n)

\* C8: 'UI' is skipped when the skips do not name it, and with 'UI' set to
\* False a found update that can request user input and passes the
\* downloaded and category tests is in the download collection once a search
\* has passed.
C8_UserInputIsConfigurable ==
    ("search" \in attemptOK /\ "Download" \notin invoked) =>
        \A i \in Range(search_results.Updates) :
            ( /\ host[i].CanRequestUserInput
              /\ ~(skipDownloaded /\ host[i].IsDownloaded)
              /\ Range(host[i].Categories) \cap categories.names # {}
                    \/ (categories.none /\ host[i].Categories # <<>>) )
            => (i \in Range(download_collection) <=> ~skipUI)

\* C9: a feature whose skip flag is False restricts nothing and a feature
\* whose skip flag is True leaves out the updates that have it: a software
\* update is found exactly when it has no skipped attribute.
C9_IncludedRestrictsNothing ==
    (~search_results.none /\ "Install" \notin invoked /\ ~skipSoftwareUpdates) =>
        \A i \in DOMAIN host :
            host[i].Type = "Software" =>
                ( i \in Range(search_results.Updates) <=>
                    /\ ~(skipInstalled /\ host[i].IsInstalled)
                    /\ ~(skipHidden /\ host[i].IsHidden)
                    /\ ~(skipReboot /\ host[i].RebootRequired)
                    /\ ~(skipPresent /\ host[i].IsPresent) )

\* the flags PyWinUpdater() has when install_updates sets no skip
NoSkipsGiven ==
    <<skipUI, skipDownloaded, skipInstalled, skipReboot, skipPresent,
      skipHidden, skipSoftwareUpdates, skipDriverUpdates>>
    = <<TRUE, FALSE, TRUE, FALSE, FALSE, TRUE, FALSE, FALSE>>

\* C10: install_updates called with no skips finds no driver update.
C10_DefaultLeavesOutDrivers ==
    (op = "install" /\ NoSkipsGiven /\ ~search_results.none) =>
        \A i \in Range(search_results.Updates) : host[i].Type # "Driver"

AbortKinds(n) ==
    [j \in 1..(2 * n) |->
        IF j % 2 = 1 THEN "failed" ELSE IF j = 2 * n THEN "out" ELSE "togo"]

\* C12: when the download or install phase aborts the operation returns
\* (comment, 'False'), the comment holding one failure entry for each failed
\* attempt of that phase, 'tries to go' after each but the last and 'out of
\* retries' at the end; a last phase that passes after a failed attempt has
\* no 'done without error' line.
C12_FailureReportOfAPhase ==
    /\ (pc = "done" /\ result.kind = "failure"
            /\ started[Len(started)] \in {"download", "install"}) =>
          /\ result.passed = "False"
          /\ [j \in DOMAIN result.comment |-> result.comment[j].k]
                = AbortKinds(fails[started[Len(started)]])
    /\ (pc = "done" /\ result.kind = "uptodate" /\ fails[LastPhase] >= 1) =>
          \A j \in DOMAIN comment : comment[j].k # "clean"

\* install_updates gave up in its install phase after two failed attempts
C12_Witness ==
    /\ pc = "done"
    /\ result.kind = "failure"
    /\ started = <<"search", "download", "install">>
    /\ fails.install = 2

C14_AddedAtMostOnce ==
    \A j, k \in DOMAIN download_collection :
        j # k => download_collection[j] # download_collection[k]

\* C15: every failed attempt takes exactly one from the counter and a passed
\* attempt takes nothing, each phase starting from the counter the phase
\* before returned: the counter is the retries given less the failed
\* attempts of all phases so far.
C15_OnePerFailedAttempt == retries = retries0 - FailedAttempts

\* _download was handed the counter _search returned after one failed and
\* one passed attempt, and has failed once itself
C15_Witness ==
    /\ fails.search = 1
    /\ "search" \in attemptOK
    /\ fails.download = 1
    /\ started = <<"search", "download">>

\* C16: with neither type skipped, a driver update that is found satisfies
\* the four attribute terms of the criteria, as a software update must.
C16_TermsApplyToDrivers ==
    (~skipSoftwareUpdates /\ ~skipDriverUpdates /\ ~search_results.none
        /\ "Install" \notin invoked) =>
        \A i \in Range(search_results.Updates) :
            host[i].Type = "Driver" =>
                \A t \in Range(SearchParams) : TermHolds(t, host[i])

\* C17: list_updates invokes neither the service's Download nor its Install,
\* and download_updates does not invoke its Install.
C17_OnlyOwnPhases ==
    /\ op = "list" => invoked \subseteq {"Search"}
    /\ op = "download" => "Install" \notin invoked

\* list_updates returned its listing of a non-empty download collection
\* after a failed and a passed search attempt
C17_Witness ==
    /\ op = "list"
    /\ pc = "done"
    /\ result.kind = "listing"
    /\ fails.search >= 1
    /\ "search" \in attemptOK
    /\ download_collection # <<>>

====
